---------------------------- MODULE Spec2Model ----------------------------
(***************************************************************************)
(* Model of the notebook "lab/02 - Training with Pytorch.ipynb": the cells  *)
(* run top to bottom in one kernel.  The notebook creates and starts a     *)
(* SageMaker pipeline, polls it, computes the anomaly thresholds from the  *)
(* downloaded inputs and predictions, then compiles, packages and deploys  *)
(* the model, polling each external job in turn.                           *)
(*                                                                         *)
(* Numbers.  numpy float64 values are modelled as exact rationals plus NaN *)
(* (IEEE rounding and the infinities are not modelled).                    *)
(***************************************************************************)
EXTENDS Integers, Sequences, FiniteSets, TLC

(***************************************************************************)
(* Bounds of the model.                                                    *)
(***************************************************************************)
\* largest finite element value of a loaded array (values are 0..MaxVal or NaN)
MaxVal == 1
\* largest number of array elements that differ from 0 in one drawn data set
MaxHoles == 2

(***************************************************************************)
(* float64 arithmetic: a number is NaN or a reduced fraction num/den.      *)
(***************************************************************************)
RECURSIVE GCD(_, _)
GCD(a, b) == IF b = 0 THEN a ELSE GCD(b, a % b)

AbsInt(i) == IF i < 0 THEN -i ELSE i

NaN == [nan |-> TRUE, num |-> 0, den |-> 1]

Rat(n, d) ==
    LET g == GCD(AbsInt(n), d)
    IN  [nan |-> FALSE, num |-> n \div g, den |-> d \div g]

FromInt(i) == [nan |-> FALSE, num |-> i, den |-> 1]

Zero == FromInt(0)

\* np.isnan
IsNaN(a) == a.nan

\* a + b, a - b: NaN if either operand is NaN
FAdd(a, b) ==
    IF a.nan \/ b.nan THEN NaN
    ELSE Rat(a.num * b.den + b.num * a.den, a.den * b.den)

FSub(a, b) ==
    IF a.nan \/ b.nan THEN NaN
    ELSE Rat(a.num * b.den - b.num * a.den, a.den * b.den)

\* np.abs: |NaN| is NaN
FAbs(a) == IF a.nan THEN NaN ELSE [a EXCEPT !.num = AbsInt(a.num)]

\* a / n for a count n; x / 0 is NaN for x = 0 or NaN (the only case np.mean
\* meets on an empty axis)
FDivN(a, n) ==
    IF a.nan \/ n = 0 THEN NaN ELSE Rat(a.num, a.den * n)

RECURSIVE FSum(_)
FSum(s) == IF s = <<>> THEN Zero ELSE FAdd(FSum(SubSeq(s, 1, Len(s) - 1)), s[Len(s)])

(***************************************************************************)
(* numpy arrays: a shape and the elements in row-major (C) order.          *)
(***************************************************************************)
RECURSIVE Prod(_)
Prod(s) == IF s = <<>> THEN 1 ELSE s[1] * Prod(Tail(s))

\* (the elements are kept as a sequence 1..size)
NdArray(shape, data) == [shape |-> shape, data |-> SubSeq(data, 1, Len(data))]

Size(a) == Len(a.data)

\* element (i, j, k), 0-based, of a 3-d array
At3(a, i, j, k) == a.data[(i * a.shape[2] + j) * a.shape[3] + k + 1]

\* element (i, j), 0-based, of a 2-d array
At2(a, i, j) == a.data[i * a.shape[2] + j + 1]

\* np.vstack of a non-empty list of arrays that agree on every axis but the
\* first: the row-major data are concatenated
RECURSIVE ConcatData(_)
ConcatData(fs) == IF fs = <<>> THEN <<>> ELSE fs[1].data \o ConcatData(Tail(fs))

RECURSIVE SumFirst(_)
SumFirst(fs) == IF fs = <<>> THEN 0 ELSE fs[1].shape[1] + SumFirst(Tail(fs))

vstack(fs) == NdArray(<<SumFirst(fs)>> \o Tail(fs[1].shape), ConcatData(fs))

\* ndarray.reshape(a, b, c): defined only when the sizes agree (numpy raises
\* ValueError otherwise)
CanReshape(arr, a, b, c) == Size(arr) = a * b * c

reshape(arr, a, b, c) == NdArray(<<a, b, c>>, arr.data)

\* ndarray.transpose((0,2,1)) of a 3-d array
transpose021(arr) ==
    LET a == arr.shape[1]
        b == arr.shape[2]
        c == arr.shape[3]
    IN  NdArray(<<a, c, b>>,
                [p \in 1..(a * b * c) |->
                    LET i == (p - 1) \div (c * b)
                        k == ((p - 1) % (c * b)) \div b
                        j == (p - 1) % b
                    IN  At3(arr, i, j, k)])

\* ndarray.transpose((1,0)) of a 2-d array
transpose10(arr) ==
    LET a == arr.shape[1]
        b == arr.shape[2]
    IN  NdArray(<<b, a>>,
                [p \in 1..(a * b) |-> At2(arr, (p - 1) % a, (p - 1) \div a)])

\* (mutant of absdiff: the sign slip np.abs(y + x))
absdiff_plus(y, x) ==
    NdArray(y.shape, [p \in 1..Size(y) |-> FAbs(FAdd(y.data[p], x.data[p]))])

\* np.abs(y - x) of two arrays of one shape
absdiff(y, x) ==
    NdArray(y.shape, [p \in 1..Size(y) |-> FAbs(FSub(y.data[p], x.data[p]))])

\* np.mean(arr, axis=1) of a 3-d array of shape (a, b, c): shape (a, c)
mean3_axis1(arr) ==
    LET a == arr.shape[1]
        b == arr.shape[2]
        c == arr.shape[3]
    IN  NdArray(<<a, c>>,
                [p \in 1..(a * c) |->
                    LET i == (p - 1) \div c
                        k == (p - 1) % c
                    IN  FDivN(FSum([j \in 1..b |-> At3(arr, i, j - 1, k)]), b)])

\* (mutant of mean2_axis1: the last column left out of the sum)
mean2_axis1_DropLast(arr) ==
    LET a == arr.shape[1]
        b == arr.shape[2]
    IN  NdArray(<<a>>,
                [p \in 1..a |->
                    FDivN(FSum([j \in 1..(b - 1) |-> At2(arr, p - 1, j - 1)]), b)])

\* np.mean(arr, axis=1) of a 2-d array of shape (a, b): shape (a)
mean2_axis1(arr) ==
    LET a == arr.shape[1]
        b == arr.shape[2]
    IN  NdArray(<<a>>,
                [p \in 1..a |->
                    FDivN(FSum([j \in 1..b |-> At2(arr, p - 1, j - 1)]), b)])

\* arr[np.isnan(arr)] = 0
nan_to_zero(arr) ==
    NdArray(arr.shape, [p \in 1..Size(arr) |-> IF IsNaN(arr.data[p]) THEN Zero ELSE arr.data[p]])


(***************************************************************************)
(* The state of one run of the notebook and of the services it calls.      *)
(***************************************************************************)
VARIABLES
    pc,                      \* the next cell (or loop iteration) the kernel runs
    log,                     \* requests issued and loops left so far, in order
    create_result,           \* what pipeline.create did: returned or raised
    response,                \* the PipelineArn held by `response`
    tagged,                  \* the ResourceArns passed to add_tags
    PipelineExecutionStatus, \* status of the pipeline execution (service side)
    StepStatus,              \* status of each pipeline step (service side)
    started,                 \* the pipeline steps in the order the service started them
    CompilationJobStatus,    \* status of the compilation job (service side)
    EdgePackagingJobStatus,  \* status of the edge packaging job (service side)
    resp,                    \* the status the last describe_* call of a loop returned
    training_jobs,           \* number of TrainingJobSummaries list_training_jobs returned
    input_files,             \* arrays np.load gives for data/input/*.npy, in glob order
    pred_files,              \* arrays np.load gives for data/preds/*.out, in glob order
    dims,                    \* <<n_samples, n_features, n_rows, n_cols>>
    mae_loss,                \* the array mae_loss after the NaN replacement
    thresholds,              \* the array thresholds
    saved,                   \* whether statistics/thresholds.npy has been written
    edge_packaging_request,  \* the arguments given to create_edge_packaging_job
    iot_job                  \* the arguments given to iot_client.create_job

vars == <<pc, log, create_result, response, tagged, PipelineExecutionStatus,
          StepStatus, started, CompilationJobStatus, EdgePackagingJobStatus,
          resp, training_jobs, input_files, pred_files, dims, mae_loss,
          thresholds, saved, edge_packaging_request, iot_job>>

pipelineVars == <<create_result, response, tagged>>
serviceVars == <<PipelineExecutionStatus, StepStatus, started,
                 CompilationJobStatus, EdgePackagingJobStatus>>
dataVars == <<input_files, pred_files>>
thresholdVars == <<dims, mae_loss, thresholds, saved>>
requestVars == <<edge_packaging_request, iot_job>>

EmptyArray == NdArray(<<0>>, <<>>)

(***************************************************************************)
(* The threshold cell (Part 3/4).                                          *)
(***************************************************************************)
\* (mutant of Relayout: the transpose((0,2,1)) left out)
Relayout_NoTranspose(arr, d) == reshape(arr, d[1], d[2], d[3] * d[4])

\* x_inputs.reshape(n_samples, n_features, n_rows*n_cols).transpose((0,2,1))
Relayout(arr, d) == transpose021(reshape(arr, d[1], d[2], d[3] * d[4]))

\* (mutant of MaeLossRaw: the transpose((1,0)) left out)
MaeLossRaw_NoTranspose(x, y) == mean3_axis1(absdiff(y, x))

\* mae_loss = np.mean(np.abs(y_preds - x_inputs), axis=1).transpose((1,0))
MaeLossRaw(x, y) == transpose10(mean3_axis1(absdiff(y, x)))

\* (mutant of MaeLoss: the NaN replacement left out)
MaeLoss_KeepNaN(x, y) == transpose10(mean3_axis1(absdiff(y, x)))

\* (mutant of MaeLoss: the NaN elements of |y - x| zeroed before the first mean)
MaeLoss_ZeroElements(x, y) == transpose10(mean3_axis1(nan_to_zero(absdiff(y, x))))

\* mae_loss[np.isnan(mae_loss)] = 0
MaeLoss(x, y) == nan_to_zero(MaeLossRaw(x, y))

\* thresholds = np.mean(mae_loss, axis=1)
Thresholds(m) == mean2_axis1(m)

\* The cell raises when a glob is empty (np.vstack of an empty list), when the
\* input stack is not 4-d, or when the prediction stack cannot take the input
\* stack's dimensions.
ThresholdsCellRaises ==
    \/ input_files = <<>>
    \/ pred_files = <<>>
    \/ Len(vstack(input_files).shape) # 4
    \/ LET d == vstack(input_files).shape
       IN  ~CanReshape(vstack(pred_files), d[1], d[2], d[3] * d[4])

ThresholdsCell ==
    /\ pc = "thresholds"
    /\ IF ThresholdsCellRaises
       THEN /\ pc' = "error"
            /\ UNCHANGED thresholdVars
       ELSE LET x_inputs == vstack(input_files)
                y_preds == vstack(pred_files)
                d == x_inputs.shape
            IN  /\ dims' = d
                /\ mae_loss' = MaeLoss(Relayout(x_inputs, d), Relayout(y_preds, d))
                /\ thresholds' = Thresholds(mae_loss')
                /\ saved' = TRUE
                /\ pc' = "compile"
    /\ UNCHANGED <<log, pipelineVars, serviceVars, resp, training_jobs, dataVars,
                   requestVars>>

(***************************************************************************)
(* The pipeline definition (Part 1/4).                                     *)
(***************************************************************************)
\* Pipeline(steps=[step_process, step_train, step_create_model, step_transform])
PipelineSteps == <<"step_process", "step_train", "step_create_model", "step_transform">>

Steps == {PipelineSteps[i] : i \in DOMAIN PipelineSteps}

\* (mutant of Consumes: the transformer given a literal model name instead of
\* step_create_model.properties.ModelName)
Consumes_LiteralModelName(s) ==
    CASE s = "step_process" -> {}
      [] s = "step_train" -> {"step_process"}
      [] s = "step_create_model" -> {"step_train"}
      [] s = "step_transform" -> {"step_process"}

\* the steps whose properties a step's definition reads:
\*   step_train:        step_process...Outputs["train_data"].S3Output.S3Uri
\*   step_create_model: step_train.properties.ModelArtifacts.S3ModelArtifacts
\*   step_transform:    step_create_model.properties.ModelName and
\*                      step_process...Outputs["train_data"].S3Output.S3Uri
Consumes(s) ==
    CASE s = "step_process" -> {}
      [] s = "step_train" -> {"step_process"}
      [] s = "step_create_model" -> {"step_train"}
      [] s = "step_transform" -> {"step_create_model", "step_process"}

(***************************************************************************)
(* The services.  A pipeline execution runs a step once every step whose   *)
(* properties it reads has succeeded; anyone with access may stop an       *)
(* execution or a job, which then passes through Stopping / STOPPING.      *)
(***************************************************************************)
StartStep(s) ==
    /\ PipelineExecutionStatus = "Executing"
    /\ StepStatus[s] = "Pending"
    /\ \A d \in Consumes(s) : StepStatus[d] = "Succeeded"
    /\ StepStatus' = [StepStatus EXCEPT ![s] = "Executing"]
    /\ started' = Append(started, s)
    /\ UNCHANGED <<pc, log, pipelineVars, PipelineExecutionStatus,
                   CompilationJobStatus, EdgePackagingJobStatus, resp,
                   training_jobs, dataVars, thresholdVars, requestVars>>

FinishStep(s) ==
    /\ PipelineExecutionStatus = "Executing"
    /\ StepStatus[s] = "Executing"
    /\ StepStatus' = [StepStatus EXCEPT ![s] = "Succeeded"]
    /\ PipelineExecutionStatus' =
          IF \A t \in Steps : StepStatus'[t] = "Succeeded"
          THEN "Succeeded" ELSE "Executing"
    /\ UNCHANGED <<pc, log, pipelineVars, started, CompilationJobStatus,
                   EdgePackagingJobStatus, resp, training_jobs, dataVars,
                   thresholdVars, requestVars>>

FailStep(s) ==
    /\ PipelineExecutionStatus = "Executing"
    /\ StepStatus[s] = "Executing"
    /\ StepStatus' = [StepStatus EXCEPT ![s] = "Failed"]
    /\ PipelineExecutionStatus' = "Failed"
    /\ UNCHANGED <<pc, log, pipelineVars, started, CompilationJobStatus,
                   EdgePackagingJobStatus, resp, training_jobs, dataVars,
                   thresholdVars, requestVars>>

StopPipelineExecution ==
    /\ PipelineExecutionStatus = "Executing"
    /\ PipelineExecutionStatus' = "Stopping"
    /\ UNCHANGED <<pc, log, pipelineVars, StepStatus, started,
                   CompilationJobStatus, EdgePackagingJobStatus, resp,
                   training_jobs, dataVars, thresholdVars, requestVars>>

PipelineExecutionStopped ==
    /\ PipelineExecutionStatus = "Stopping"
    /\ PipelineExecutionStatus' = "Stopped"
    /\ StepStatus' = [s \in Steps |->
                        IF StepStatus[s] = "Executing" THEN "Stopped" ELSE StepStatus[s]]
    /\ UNCHANGED <<pc, log, pipelineVars, started, CompilationJobStatus,
                   EdgePackagingJobStatus, resp, training_jobs, dataVars,
                   thresholdVars, requestVars>>

\* the statuses a pipeline execution can move to
PipelineNext(st) ==
    CASE st = "Executing" -> {"Succeeded", "Failed", "Stopping"}
      [] st = "Stopping" -> {"Stopped"}
      [] OTHER -> {}

\* the statuses a compilation job or an edge packaging job can move to
JobNext(st) ==
    CASE st = "STARTING" -> {"INPROGRESS", "FAILED", "STOPPING"}
      [] st = "INPROGRESS" -> {"COMPLETED", "FAILED", "STOPPING"}
      [] st = "STOPPING" -> {"STOPPED"}
      [] OTHER -> {}

CompilationJobMoves ==
    /\ \E st \in JobNext(CompilationJobStatus) : CompilationJobStatus' = st
    /\ UNCHANGED <<pc, log, pipelineVars, PipelineExecutionStatus, StepStatus,
                   started, EdgePackagingJobStatus, resp, training_jobs,
                   dataVars, thresholdVars, requestVars>>

EdgePackagingJobMoves ==
    /\ \E st \in JobNext(EdgePackagingJobStatus) : EdgePackagingJobStatus' = st
    /\ UNCHANGED <<pc, log, pipelineVars, PipelineExecutionStatus, StepStatus,
                   started, CompilationJobStatus, resp, training_jobs,
                   dataVars, thresholdVars, requestVars>>

(***************************************************************************)
(* The notebook's cells, in the order the kernel runs them.  A cell that   *)
(* raises ends the run (pc = "error").                                     *)
(***************************************************************************)
ErrorCodes == {"ValidationError", "ResourceLimitExceeded"}

\* what pipeline.create(role_arn=role) may do: return, raise a ClientError
\* (with a code, and a message that holds "Pipeline names must be unique
\* within" or not), or raise something else
CreateResults ==
    {[exc |-> "none", Code |-> "", unique |-> FALSE],
     [exc |-> "Exception", Code |-> "", unique |-> FALSE]}
    \cup {[exc |-> "ClientError", Code |-> c, unique |-> u] :
             c \in ErrorCodes, u \in BOOLEAN}

\* (mutant of DuplicateName: the message is not looked at)
DuplicateName_CodeOnly(error) == error.Code = "ValidationError"

\* error["Code"] == "ValidationError" and
\* "Pipeline names must be unique within" in error["Message"]
DuplicateName(error) == error.Code = "ValidationError" /\ error.unique

\* try: response = pipeline.create(...)  except ClientError ...;
\* pipeline_arn = response["PipelineArn"]; sm_client.add_tags(ResourceArn=pipeline_arn)
CreatePipelineCell ==
    /\ pc = "create"
    /\ \E r \in CreateResults :
          /\ create_result' = r
          /\ IF r.exc = "none"
             THEN /\ response' = "PipelineArn of create"
                  /\ tagged' = tagged \cup {response'}
                  /\ log' = log \o <<"pipeline.create", "add_tags">>
                  /\ pc' = "start"
             ELSE IF r.exc = "ClientError" /\ DuplicateName(r)
             THEN /\ response' = "PipelineArn of describe"
                  /\ tagged' = tagged \cup {response'}
                  /\ log' = log \o <<"pipeline.create", "pipeline.describe", "add_tags">>
                  /\ pc' = "start"
             ELSE /\ log' = log \o <<"pipeline.create">>
                  /\ pc' = "error"
                  /\ UNCHANGED <<response, tagged>>
    /\ UNCHANGED <<serviceVars, resp, training_jobs, dataVars, thresholdVars,
                   requestVars>>

\* start_response = pipeline.start(...)
StartCell ==
    /\ pc = "start"
    /\ log' = Append(log, "pipeline.start")
    /\ PipelineExecutionStatus' = "Executing"
    /\ pc' = "poll_pipeline"
    /\ UNCHANGED <<pipelineVars, StepStatus, started, CompilationJobStatus,
                   EdgePackagingJobStatus, resp, training_jobs, dataVars,
                   thresholdVars, requestVars>>

\* (mutant of PipelineRunning: the loop gives up at once)
PipelineRunning_Never(st) == FALSE

\* resp['PipelineExecutionStatus'] == 'Executing'
PipelineRunning(st) == st = "Executing"

\* (mutant of JobRunning: the loop gives up at once)
JobRunning_Never(st) == FALSE

\* resp[...] in ['STARTING', 'INPROGRESS']
JobRunning(st) == st \in {"STARTING", "INPROGRESS"}

\* one iteration of: while True: resp = describe_pipeline_execution(...);
\* if Executing: print('Running...') else: break; time.sleep(30)
PollPipeline ==
    /\ pc = "poll_pipeline"
    /\ resp' = PipelineExecutionStatus
    /\ IF PipelineRunning(resp')
       THEN UNCHANGED <<pc, log>>
       ELSE /\ pc' = "training_jobs"
            /\ log' = Append(log, "break pipeline loop")
    /\ UNCHANGED <<pipelineVars, serviceVars, training_jobs, dataVars,
                   thresholdVars, requestVars>>

\* largest number of Completed training jobs the listing may return
MaxTrainingJobs == 2

\* (mutant of TrainingJobsCell: the assertion written len(training_jobs) >= 1)
TrainingJobsCell_AtLeastOne ==
    /\ pc = "training_jobs"
    /\ \E k \in 0..MaxTrainingJobs :
          /\ k > 0 => StepStatus["step_train"] = "Succeeded"
          /\ training_jobs' = k
          /\ pc' = IF k >= 1 THEN "thresholds" ELSE "error"
    /\ UNCHANGED <<log, pipelineVars, serviceVars, resp, dataVars, thresholdVars,
                   requestVars>>

\* download_data(... 'data/preds/'); training_jobs = list_training_jobs(
\* NameContains=execution_id, StatusEquals='Completed'); assert(len(training_jobs) == 1);
\* download_data(... 'data/input/').  A Completed job exists only once the
\* training step has succeeded.
TrainingJobsCell ==
    /\ pc = "training_jobs"
    /\ \E k \in 0..MaxTrainingJobs :
          /\ k > 0 => StepStatus["step_train"] = "Succeeded"
          /\ training_jobs' = k
          /\ pc' = IF k = 1 THEN "thresholds" ELSE "error"
    /\ UNCHANGED <<log, pipelineVars, serviceVars, resp, dataVars, thresholdVars,
                   requestVars>>

\* sm_client.create_compilation_job(...)
CompileCell ==
    /\ pc = "compile"
    /\ log' = Append(log, "create_compilation_job")
    /\ CompilationJobStatus' = "STARTING"
    /\ pc' = "poll_compile"
    /\ UNCHANGED <<pipelineVars, PipelineExecutionStatus, StepStatus, started,
                   EdgePackagingJobStatus, resp, training_jobs, dataVars,
                   thresholdVars, requestVars>>

\* (mutant of PollCompile: a failed compilation is requested again)
PollCompile_Retry ==
    /\ pc = "poll_compile"
    /\ resp' = CompilationJobStatus
    /\ IF JobRunning(resp')
       THEN UNCHANGED <<pc, log>>
       ELSE /\ pc' = IF resp' = "FAILED" THEN "compile" ELSE "package"
            /\ log' = Append(log, "break compilation loop")
    /\ UNCHANGED <<pipelineVars, serviceVars, training_jobs, dataVars,
                   thresholdVars, requestVars>>

\* one iteration of the compilation job's polling loop
PollCompile ==
    /\ pc = "poll_compile"
    /\ resp' = CompilationJobStatus
    /\ IF JobRunning(resp')
       THEN UNCHANGED <<pc, log>>
       ELSE /\ pc' = "package"
            /\ log' = Append(log, "break compilation loop")
    /\ UNCHANGED <<pipelineVars, serviceVars, training_jobs, dataVars,
                   thresholdVars, requestVars>>

project_id == "<ProjectId>"
\* bucket_name = 'sagemaker-wind-turbine-farm-%s' % project_id
bucket_name == <<"sagemaker-wind-turbine-farm-", project_id>>
prefix == "wind_turbine_anomaly"
model_version == "1.0"
model_name == "WindTurbineAnomalyDetection"

\* region_name = sagemaker_session.boto_session.region_name
region_name == "<Region>"
\* account_id = sts_client.get_caller_identity()["Account"]
account_id == "<Account>"
NoRequest == [sent |-> FALSE]

\* resp = sm_client.create_edge_packaging_job(...)
PackageCell ==
    /\ pc = "package"
    /\ log' = Append(log, "create_edge_packaging_job")
    /\ edge_packaging_request' =
          [sent |-> TRUE,
           ModelName |-> model_name,
           ModelVersion |-> model_version,
           S3OutputLocation |->
              <<"s3://">> \o bucket_name \o <<"/", prefix, "/model/">>]
    /\ EdgePackagingJobStatus' = "STARTING"
    /\ pc' = "poll_package"
    /\ UNCHANGED <<pipelineVars, PipelineExecutionStatus, StepStatus, started,
                   CompilationJobStatus, resp, training_jobs, dataVars,
                   thresholdVars, iot_job>>

\* (mutant of PollPackage: the cell raises unless the job has COMPLETED)
PollPackage_RaiseOnFailure ==
    /\ pc = "poll_package"
    /\ resp' = EdgePackagingJobStatus
    /\ IF JobRunning(resp')
       THEN UNCHANGED <<pc, log>>
       ELSE /\ pc' = IF resp' = "COMPLETED" THEN "iot" ELSE "error"
            /\ log' = Append(log, "break packaging loop")
    /\ UNCHANGED <<pipelineVars, serviceVars, training_jobs, dataVars,
                   thresholdVars, requestVars>>

\* one iteration of the edge packaging job's polling loop
PollPackage ==
    /\ pc = "poll_package"
    /\ resp' = EdgePackagingJobStatus
    /\ IF JobRunning(resp')
       THEN UNCHANGED <<pc, log>>
       ELSE /\ pc' = "iot"
            /\ log' = Append(log, "break packaging loop")
    /\ UNCHANGED <<pipelineVars, serviceVars, training_jobs, dataVars,
                   thresholdVars, requestVars>>

\* (mutant of IotCell: the key is built without the model/ folder)
IotCell_KeyWithoutFolder ==
    /\ pc = "iot"
    /\ log' = Append(log, "iot.create_job")
    /\ iot_job' =
          [sent |-> TRUE,
           targets |->
              <<<<"arn:aws:iot:", region_name, ":", account_id,
                  ":thinggroup/WindTurbineFarm-", project_id>>>>,
           document |->
              [type |-> "new_model",
               model_version |-> model_version,
               model_name |-> model_name,
               model_package_bucket |-> bucket_name,
               model_package_key |->
                  <<prefix, "/", model_name, "-", model_version, ".tar.gz">>],
           targetSelection |-> "SNAPSHOT"]
    /\ pc' = "done"
    /\ UNCHANGED <<pipelineVars, serviceVars, resp, training_jobs, dataVars,
                   thresholdVars, edge_packaging_request>>

\* resp = iot_client.create_job(...)
IotCell ==
    /\ pc = "iot"
    /\ log' = Append(log, "iot.create_job")
    /\ iot_job' =
          [sent |-> TRUE,
           targets |->
              <<<<"arn:aws:iot:", region_name, ":", account_id,
                  ":thinggroup/WindTurbineFarm-", project_id>>>>,
           document |->
              [type |-> "new_model",
               model_version |-> model_version,
               model_name |-> model_name,
               model_package_bucket |-> bucket_name,
               model_package_key |->
                  <<prefix, "/model/", model_name, "-", model_version, ".tar.gz">>],
           targetSelection |-> "SNAPSHOT"]
    /\ pc' = "done"
    /\ UNCHANGED <<pipelineVars, serviceVars, resp, training_jobs, dataVars,
                   thresholdVars, edge_packaging_request>>

(***************************************************************************)
(* The data sets a run may load.  A data set is drawn for a tensor shape    *)
(* (n_samples, n_features, n_rows, n_cols): the input and the prediction   *)
(* stacks are 0 everywhere but at up to MaxHoles elements, which hold any  *)
(* of 1..MaxVal or NaN.  Every sample is stored in a file of its own.      *)
(***************************************************************************)
Shapes == {<<2, 2, 1, 3>>, <<1, 1, 2, 2>>, <<3, 2, 1, 1>>}

NonZeroVals == {FromInt(i) : i \in 1..MaxVal} \cup {NaN}

\* strictly increasing h-tuples of positions 1..n
Holes(h, n) ==
    {s \in [1..h -> 1..n] : \A i \in 1..h : \A j \in 1..h : i < j => s[i] < s[j]}

\* the flat data of length n that holds v[i] at pos[i] + off and 0 elsewhere
Flat(n, off, pos, v) ==
    [p \in 1..n |->
        IF \E i \in DOMAIN pos : pos[i] = p + off
        THEN v[CHOOSE i \in DOMAIN pos : pos[i] = p + off]
        ELSE Zero]

\* the flat data cut into one file per sample, each of shape (1, F, R, C)
Files(sh, flat) ==
    LET per == sh[2] * sh[3] * sh[4]
    IN  [n \in 1..sh[1] |->
            NdArray(<<1, sh[2], sh[3], sh[4]>>,
                    SubSeq(flat, (n - 1) * per + 1, n * per))]

\* the flat data cut into n files of shape fsh
FilesOfShape(n, fsh, flat) ==
    [i \in 1..n |->
        NdArray(fsh, SubSeq(flat, (i - 1) * Prod(fsh) + 1, i * Prod(fsh)))]

\* the shapes a prediction file may have for a data set of shape sh: that of
\* the input files and, for the sets of one feature or one location, the
\* flattened (1, F*R*C)
PredFileShapes(sh) ==
    {<<1, sh[2], sh[3], sh[4]>>}
       \cup (IF sh[2] = 1 \/ sh[3] * sh[4] = 1
             THEN {<<1, sh[2] * sh[3] * sh[4]>>} ELSE {})

InitRun ==
    /\ create_result = [exc |-> "pending", Code |-> "", unique |-> FALSE]
    /\ response = "none"
    /\ tagged = {}
    /\ resp = "none"
    /\ training_jobs = 0
    /\ dims = <<0, 0, 0, 0>>
    /\ mae_loss = EmptyArray
    /\ thresholds = EmptyArray
    /\ saved = FALSE
    /\ edge_packaging_request = NoRequest
    /\ iot_job = NoRequest

\* the threshold cell alone, on every data set drawn from the bounded family
InitThresholds ==
    /\ pc = "thresholds"
    /\ log = <<>>
    /\ PipelineExecutionStatus = "Succeeded"
    /\ StepStatus = [s \in Steps |-> "Succeeded"]
    /\ started = PipelineSteps
    /\ CompilationJobStatus = "NONE"
    /\ EdgePackagingJobStatus = "NONE"
    /\ InitRun
    /\ \E sh \in Shapes : \E h \in 0..MaxHoles :
         \E pos \in Holes(h, 2 * Prod(sh)) : \E v \in [1..h -> NonZeroVals] :
            \E fsh \in PredFileShapes(sh) :
               /\ input_files = Files(sh, Flat(Prod(sh), 0, pos, v))
               /\ pred_files =
                     FilesOfShape(sh[1], fsh, Flat(Prod(sh), Prod(sh), pos, v))

NextThresholds == ThresholdsCell

SpecThresholds == InitThresholds /\ [][NextThresholds]_vars

\* a whole run of the notebook: the files hold 0 everywhere but at the first
\* input element, and the prediction files may lack the last sample
Init ==
    /\ pc = "create"
    /\ log = <<>>
    /\ PipelineExecutionStatus = "NONE"
    /\ StepStatus = [s \in Steps |-> "Pending"]
    /\ started = <<>>
    /\ CompilationJobStatus = "NONE"
    /\ EdgePackagingJobStatus = "NONE"
    /\ InitRun
    /\ \E sh \in Shapes : \E v \in {Zero} \cup NonZeroVals : \E drop \in {0, 1} :
          /\ input_files = Files(sh, Flat(Prod(sh), 0, <<1>>, <<v>>))
          /\ pred_files =
                SubSeq(Files(sh, Flat(Prod(sh), 0, <<>>, <<>>)), 1, sh[1] - drop)

Notebook ==
    \/ CreatePipelineCell
    \/ StartCell
    \/ PollPipeline
    \/ TrainingJobsCell
    \/ ThresholdsCell
    \/ CompileCell
    \/ PollCompile
    \/ PackageCell
    \/ PollPackage
    \/ IotCell

Services ==
    \/ \E s \in Steps : StartStep(s) \/ FinishStep(s) \/ FailStep(s)
    \/ StopPipelineExecution
    \/ PipelineExecutionStopped
    \/ CompilationJobMoves
    \/ EdgePackagingJobMoves

Next == Notebook \/ Services

Spec == Init /\ [][Next]_vars

\* the kernel keeps running: a polling loop that can iterate does iterate
FairSpec ==
    Spec /\ WF_vars(PollPipeline) /\ WF_vars(PollCompile) /\ WF_vars(PollPackage)

(***************************************************************************)
(* Properties of the threshold cell.                                       *)
(***************************************************************************)
\* the stacks as loaded
XStack == vstack(input_files)
YStack == vstack(pred_files)
NLoc == dims[3] * dims[4]

\* |y - x| of two elements as an integer, -1 when either is NaN
ErrOf(x, y) == IF x.nan \/ y.nan THEN -1 ELSE AbsInt(y.num - x.num)

\* the element-wise errors of two flat data sequences of one length
RECURSIVE ErrSeq(_, _)
ErrSeq(xs, ys) ==
    IF xs = <<>> THEN <<>>
    ELSE <<ErrOf(xs[1], ys[1])>> \o ErrSeq(Tail(xs), Tail(ys))

\* the errors of the loaded stacks, in row-major order of (n, f, r, c)
Errors == ErrSeq(XStack.data, YStack.data)

\* entry (n, f, k) of an error table e, k = r * n_cols + c
AbsErr(e, n, f, k) == e[(n * dims[2] + f) * NLoc + k + 1]

HasNaN(e, n, f, k) == AbsErr(e, n, f, k) = -1

RECURSIVE SumTo(_, _)
\* g[0] + ... + g[m - 1]
SumTo(g, m) == IF m = 0 THEN 0 ELSE SumTo(g, m - 1) + g[m - 1]

\* the sum over the locations k of |y[n,f,k] - x[n,f,k]|
LocSum(e, n, f) == SumTo([k \in 0..(NLoc - 1) |-> AbsErr(e, n, f, k)], NLoc)

\* the sum over the features f of |y[n,f,k] - x[n,f,k]|
FeatSum(e, n, k) == SumTo([f \in 0..(dims[2] - 1) |-> AbsErr(e, n, f, k)], dims[2])

NaNInSample(e, n, f) == \E k \in 0..(NLoc - 1) : HasNaN(e, n, f, k)
NaNInFeature(e, f) == \E n \in 0..(dims[1] - 1) : NaNInSample(e, n, f)
NaNAtLocation(e, k) ==
    \E n \in 0..(dims[1] - 1) : \E f \in 0..(dims[2] - 1) : HasNaN(e, n, f, k)
AnyNaN(e) == \E f \in 0..(dims[2] - 1) : NaNInFeature(e, f)

\* C1: after the cell has run on identical input and prediction stacks (all
\* zero, or equal element by element, NaN elements included), every entry of
\* thresholds is exactly 0.
C1_IdenticalGivesZero ==
    (saved /\ input_files = pred_files) =>
        /\ Size(thresholds) > 0
        /\ \A p \in 1..Size(thresholds) : thresholds.data[p] = Zero

\* the cell has run on identical stacks that are not all zero
C1_Witness ==
    /\ saved
    /\ input_files = pred_files
    /\ \E p \in 1..Size(XStack) : XStack.data[p] # Zero

\* thresholds per location, for the error table e of the loaded stacks
PerLocation(e) ==
    /\ mae_loss.shape = <<NLoc, dims[1]>>
    /\ thresholds.shape = <<NLoc>>
    /\ \A k \in 0..(NLoc - 1) :
          ~NaNAtLocation(e, k) =>
             thresholds.data[k + 1] =
                Rat(SumTo([n \in 0..(dims[1] - 1) |-> FeatSum(e, n, k)], dims[1]),
                    dims[1] * dims[2])

\* C2 as stated: the intermediate has shape (R*C, N), the output has R*C
\* entries, and entry k is the mean over the samples of the mean over the
\* features of |y[n,f,k] - x[n,f,k]|.
C2_PerLocation == saved => PerLocation(Errors)

\* thresholds per feature, for the error table e of the loaded stacks
PerFeature(e) ==
    /\ mae_loss.shape = <<dims[2], dims[1]>>
    /\ \A f \in 0..(dims[2] - 1) : \A n \in 0..(dims[1] - 1) :
          At2(mae_loss, f, n) =
             IF NaNInSample(e, n, f) THEN Zero ELSE Rat(LocSum(e, n, f), NLoc)
    /\ thresholds.shape = <<dims[2]>>
    /\ \A f \in 0..(dims[2] - 1) :
          thresholds.data[f + 1] =
             Rat(SumTo([n \in 0..(dims[1] - 1) |->
                          IF NaNInSample(e, n, f) THEN 0 ELSE LocSum(e, n, f)],
                       dims[1]),
                 NLoc * dims[1])

\* C2 amended: the absolute difference is averaged across the location axis
\* R*C: the intermediate has shape (F, N), its entry (f, n) is the mean over
\* the locations k of |y[n,f,k] - x[n,f,k]|, or 0 when that mean is NaN; the
\* output has F entries, entry f being the mean over the N samples of the
\* intermediate's row f.
C2_PerFeature == saved => PerFeature(Errors)

\* the cell has run on stacks with more locations than features, a nonzero
\* error and a NaN
C2_Witness ==
    /\ saved
    /\ NLoc > dims[2]
    /\ dims[2] > 1
    /\ AnyNaN(Errors)
    /\ \E p \in 1..Size(thresholds) : thresholds.data[p] # Zero

\* one entry per feature, the closed-form mean for NaN-free features
OnePerFeature(e) ==
    /\ Size(thresholds) = dims[2]
    /\ \A f \in 0..(dims[2] - 1) :
          ~NaNInFeature(e, f) =>
             /\ ~IsNaN(thresholds.data[f + 1])
             /\ thresholds.data[f + 1].num * (dims[1] * NLoc) =
                   SumTo([n \in 0..(dims[1] - 1) |-> LocSum(e, n, f)], dims[1])
                      * thresholds.data[f + 1].den

\* C3: thresholds holds exactly one entry per feature, and the entry of a
\* feature whose data hold no NaN is the mean over all N samples of the mean
\* over all R*C locations of |y[n,f,k] - x[n,f,k]|.
C3_OnePerFeature == saved => OnePerFeature(Errors)

\* the cell has run on NaN-free stacks with several samples, features and
\* locations, and two features got different thresholds
C3_Witness ==
    /\ saved
    /\ ~AnyNaN(Errors)
    /\ dims[1] > 1 /\ dims[2] > 1 /\ NLoc > 1
    /\ thresholds.data[1] # thresholds.data[2]

\* C4: wherever NaN values sit in the (equal-shaped) input or prediction
\* stack, the cell does not raise and no entry of thresholds is NaN.
C4_NoNaNInThresholds ==
    /\ pc # "error"
    /\ saved => \A p \in 1..Size(thresholds) : ~IsNaN(thresholds.data[p])
    /\ pc = "thresholds" \/ saved

\* the cell has run on stacks that hold NaN in both the input and the prediction
C4_Witness ==
    /\ saved
    /\ \E p \in 1..Size(XStack) : IsNaN(XStack.data[p])
    /\ \E p \in 1..Size(YStack) : IsNaN(YStack.data[p])

(***************************************************************************)
(* Properties of a whole run.                                              *)
(***************************************************************************)
\* the place of the first e in log, 0 when log holds none
Idx(e) ==
    IF \E i \in DOMAIN log : log[i] = e
    THEN CHOOSE i \in DOMAIN log : log[i] = e /\ \A j \in 1..(i - 1) : log[j] # e
    ELSE 0

Count(e) == Cardinality({i \in DOMAIN log : log[i] = e})

\* e is in log only after f
OnlyAfter(e, f) == Idx(e) > 0 => (Idx(f) > 0 /\ Idx(f) < Idx(e))

\* C5: whenever a polling loop has executed its break, the job it polled is
\* in a status it never leaves (so the status observed at the break was
\* terminal, not a transitional one such as Stopping / STOPPING).
C5_BreakOnlyOnTerminal ==
    /\ Idx("break pipeline loop") > 0 => PipelineNext(PipelineExecutionStatus) = {}
    /\ Idx("break compilation loop") > 0 => JobNext(CompilationJobStatus) = {}
    /\ Idx("break packaging loop") > 0 => JobNext(EdgePackagingJobStatus) = {}

\* C6: when pipeline.create raised the duplicate-name ClientError, the cell
\* went on: describe was called exactly once and the ARN it returned is the
\* one tagged; when it raised any other ClientError, the run ended there with
\* no describe call and no add_tags call.
C6_CreateErrorHandling ==
    LET dup == /\ create_result.exc = "ClientError"
               /\ create_result.Code = "ValidationError"
               /\ create_result.unique
    IN  /\ dup =>
              /\ Count("pipeline.describe") = 1
              /\ Count("add_tags") = 1
              /\ OnlyAfter("add_tags", "pipeline.describe")
              /\ tagged = {"PipelineArn of describe"}
              /\ response = "PipelineArn of describe"
        /\ (create_result.exc = "ClientError" /\ ~dup) =>
              /\ pc = "error"
              /\ Count("pipeline.describe") = 0
              /\ Count("add_tags") = 0
              /\ tagged = {}
              /\ log = <<"pipeline.create">>

\* create raised the duplicate-name error and the run went on to start the pipeline
C6_Witness ==
    /\ create_result.exc = "ClientError"
    /\ create_result.Code = "ValidationError"
    /\ create_result.unique
    /\ Idx("pipeline.start") > 0

\* C7: every request follows the exit of the preceding polling loop: the
\* thresholds and the compilation job come after the pipeline loop's break,
\* the edge packaging job after the compilation loop's break, the IoT job
\* after the packaging loop's break; and at most one of the three jobs the
\* notebook started is being waited on (started, its loop not yet left, its
\* status still a running one) at any time.
C7_SequentialWorkflow ==
    /\ saved => Idx("break pipeline loop") > 0
    /\ OnlyAfter("create_compilation_job", "break pipeline loop")
    /\ Idx("create_compilation_job") > 0 => saved
    /\ OnlyAfter("create_edge_packaging_job", "break compilation loop")
    /\ OnlyAfter("iot.create_job", "break packaging loop")
    /\ OnlyAfter("break pipeline loop", "pipeline.start")
    /\ OnlyAfter("break compilation loop", "create_compilation_job")
    /\ OnlyAfter("break packaging loop", "create_edge_packaging_job")
    /\ Cardinality(
          {j \in {"pipeline", "compilation", "packaging"} :
              \/ j = "pipeline" /\ PipelineExecutionStatus = "Executing"
              \/ j = "compilation" /\ CompilationJobStatus \in {"STARTING", "INPROGRESS"}
              \/ j = "packaging" /\ EdgePackagingJobStatus \in {"STARTING", "INPROGRESS"}})
          <= 1

\* the run reached the IoT job with all three loops left
C7_Witness ==
    /\ pc = "done"
    /\ Idx("iot.create_job") > Idx("break packaging loop")
    /\ Idx("break packaging loop") > Idx("break compilation loop")
    /\ Idx("break compilation loop") > Idx("break pipeline loop")
    /\ Idx("break pipeline loop") > 0

\* C8: the pipeline has exactly the four steps preprocess, train,
\* create-model, batch-transform; a step that has started has every step it
\* depends on succeeded (train: preprocess; create-model: train;
\* batch-transform: create-model and preprocess); so the steps start in the
\* order preprocess, train, create-model, batch-transform.
C8_StepOrder ==
    /\ Len(PipelineSteps) = 4
    /\ Steps = {"step_process", "step_train", "step_create_model", "step_transform"}
    /\ StepStatus["step_train"] # "Pending" => StepStatus["step_process"] = "Succeeded"
    /\ StepStatus["step_create_model"] # "Pending" => StepStatus["step_train"] = "Succeeded"
    /\ StepStatus["step_transform"] # "Pending" =>
          /\ StepStatus["step_create_model"] = "Succeeded"
          /\ StepStatus["step_process"] = "Succeeded"
    /\ started = SubSeq(<<"step_process", "step_train", "step_create_model",
                          "step_transform">>, 1, Len(started))

\* the execution has run all four steps
C8_Witness ==
    /\ PipelineExecutionStatus = "Succeeded"
    /\ Len(started) = 4
    /\ \A s \in Steps : StepStatus[s] = "Succeeded"

\* C9: each of pipeline.start, create_compilation_job,
\* create_edge_packaging_job and iot create_job is issued at most once,
\* whatever the loops observed, and no stop or cancel request is issued.
C9_NoRetryNoCancel ==
    /\ \A e \in {"pipeline.start", "create_compilation_job",
                 "create_edge_packaging_job", "iot.create_job"} : Count(e) <= 1
    /\ \A i \in DOMAIN log :
          log[i] \in {"pipeline.create", "pipeline.describe", "add_tags",
                      "pipeline.start", "break pipeline loop",
                      "create_compilation_job", "break compilation loop",
                      "create_edge_packaging_job", "break packaging loop",
                      "iot.create_job"}

\* the run went to its end although the compilation and the packaging failed
C9_Witness ==
    /\ pc = "done"
    /\ PipelineExecutionStatus = "Failed"
    /\ CompilationJobStatus = "FAILED"
    /\ EdgePackagingJobStatus = "FAILED"
    /\ Count("iot.create_job") = 1

\* a polling loop is running and its job's status is outside its running set
LoopCanExit ==
    \/ pc = "poll_pipeline" /\ PipelineExecutionStatus # "Executing"
    \/ pc = "poll_compile" /\ CompilationJobStatus \notin {"STARTING", "INPROGRESS"}
    \/ pc = "poll_package" /\ EdgePackagingJobStatus \notin {"STARTING", "INPROGRESS"}

\* C10: a polling loop is left only in a step that observes a status outside
\* its running set ({Executing}; {STARTING, INPROGRESS}), so it is never left
\* while the status stays in that set; and once the status is outside the set
\* the loop is eventually left (a status outside the set never returns to it).
C10_LoopExit ==
    /\ [][(pc = "poll_pipeline" /\ pc' # "poll_pipeline") =>
             /\ resp' = PipelineExecutionStatus
             /\ resp' # "Executing"]_vars
    /\ [][(pc = "poll_compile" /\ pc' # "poll_compile") =>
             /\ resp' = CompilationJobStatus
             /\ resp' \notin {"STARTING", "INPROGRESS"}]_vars
    /\ [][(pc = "poll_package" /\ pc' # "poll_package") =>
             /\ resp' = EdgePackagingJobStatus
             /\ resp' \notin {"STARTING", "INPROGRESS"}]_vars
    /\ LoopCanExit ~> ~LoopCanExit

\* all three loops have been left, the last one on observing COMPLETED
C10_Witness ==
    /\ pc = "iot"
    /\ resp = "COMPLETED"
    /\ Idx("break pipeline loop") > 0
    /\ Idx("break compilation loop") > 0

\* the cell that lists the training jobs has run
ListedTrainingJobs == Idx("break pipeline loop") > 0 /\ pc # "training_jobs"

\* C11: the compilation job, the edge packaging job and the IoT job are
\* requested only in runs where the listing returned exactly one Completed
\* training job; when it returned none or several, the assertion ended the
\* run: none of the three requests is issued and thresholds.npy is not
\* written.
C11_ExactlyOneTrainingJob ==
    /\ (\/ Idx("create_compilation_job") > 0
        \/ Idx("create_edge_packaging_job") > 0
        \/ Idx("iot.create_job") > 0
        \/ saved) => (ListedTrainingJobs /\ training_jobs = 1)
    /\ (ListedTrainingJobs /\ training_jobs # 1) =>
          /\ pc = "error"
          /\ Idx("create_compilation_job") = 0
          /\ Idx("create_edge_packaging_job") = 0
          /\ Idx("iot.create_job") = 0
          /\ ~saved
          /\ CompilationJobStatus = "NONE"
          /\ EdgePackagingJobStatus = "NONE"

\* the listing returned two jobs after a succeeded execution, and the run ended
C11_Witness ==
    /\ ListedTrainingJobs
    /\ training_jobs = 2
    /\ PipelineExecutionStatus = "Succeeded"
    /\ pc = "error"

\* NaN replaced entry by entry between the two means, divisor N kept
NaNZeroing(e) ==
    \A f \in 0..(dims[2] - 1) :
       /\ \A n \in 0..(dims[1] - 1) :
             /\ NaNInSample(e, n, f) => At2(mae_loss, f, n) = Zero
             /\ ~NaNInSample(e, n, f) =>
                   /\ ~IsNaN(At2(mae_loss, f, n))
                   /\ At2(mae_loss, f, n).num * NLoc =
                         LocSum(e, n, f) * At2(mae_loss, f, n).den
       /\ ~IsNaN(thresholds.data[f + 1])
       /\ thresholds.data[f + 1].num * (dims[1] * NLoc) =
             SumTo([n \in 0..(dims[1] - 1) |->
                      IF NaNInSample(e, n, f) THEN 0 ELSE LocSum(e, n, f)],
                   dims[1]) * thresholds.data[f + 1].den

\* C12: the NaN replacement acts on the per-(feature, sample) entries of
\* mae_loss, after the mean over the locations and before the mean over the
\* samples: an entry whose sample slice holds one NaN element is 0 whatever
\* its other elements are, every other entry is the plain mean, and each
\* threshold is the sum of the non-NaN entries of its row divided by N (the
\* zeroed entries stay in the divisor).
C12_NaNZeroing == saved => NaNZeroing(Errors)

\* the cell has run on several samples, one of which holds a NaN element and
\* a nonzero error in the same feature slice
C12_Witness ==
    /\ saved
    /\ dims[1] > 1
    /\ \E n \in 0..(dims[1] - 1) : \E f \in 0..(dims[2] - 1) :
          /\ NaNInSample(Errors, n, f)
          /\ \E k \in 0..(NLoc - 1) : AbsErr(Errors, n, f, k) > 0
          /\ At2(mae_loss, f, n) = Zero

StartsWith(str, pre) == Len(pre) <= Len(str) /\ SubSeq(str, 1, Len(pre)) = pre

\* C14: the document of the IoT job names the package the edge packaging job
\* was asked to write: the bucket is the project bucket, the key is
\* <prefix>/model/<ModelName>-<ModelVersion>.tar.gz with the name and the
\* version passed to create_edge_packaging_job, so s3://<bucket>/<key> lies
\* under that request's S3OutputLocation; the job targets exactly one thing
\* group, WindTurbineFarm-<project_id>, with SNAPSHOT target selection.
C14_JobDocument ==
    iot_job.sent =>
       LET doc == iot_job.document
           req == edge_packaging_request
       IN  /\ req.sent
           /\ doc.model_package_bucket = <<"sagemaker-wind-turbine-farm-", project_id>>
           /\ req.S3OutputLocation =
                 <<"s3://">> \o doc.model_package_bucket
                    \o <<"/", "wind_turbine_anomaly", "/model/">>
           /\ doc.model_package_key =
                 <<"wind_turbine_anomaly", "/model/", req.ModelName, "-",
                   req.ModelVersion, ".tar.gz">>
           /\ StartsWith(<<"s3://">> \o doc.model_package_bucket \o <<"/">>
                            \o doc.model_package_key,
                         req.S3OutputLocation)
           /\ doc.model_name = req.ModelName
           /\ doc.model_version = req.ModelVersion
           /\ Len(iot_job.targets) = 1
           /\ SubSeq(iot_job.targets[1], 5, 6) =
                 <<":thinggroup/WindTurbineFarm-", project_id>>
           /\ Len(iot_job.targets[1]) = 6
           /\ iot_job.targetSelection = "SNAPSHOT"

\* the IoT job has been created, after the edge packaging request
C14_Witness ==
    /\ iot_job.sent
    /\ edge_packaging_request.sent
    /\ OnlyAfter("iot.create_job", "create_edge_packaging_job")
    /\ pc = "done"

\* what the cell computes from two lists of loaded files
CellThresholds(xf, yf) ==
    LET x_inputs == vstack(xf)
        y_preds == vstack(yf)
        d == x_inputs.shape
    IN  Thresholds(MaeLoss(Relayout(x_inputs, d), Relayout(y_preds, d)))

\* the list fs with its files i and i + 1 exchanged
Swap(fs, i) ==
    [j \in 1..Len(fs) |-> IF j = i THEN fs[i + 1] ELSE IF j = i + 1 THEN fs[i] ELSE fs[j]]

\* C15: sample i of the input stack is paired with sample i of the prediction
\* stack: exchanging two neighbouring files in both enumerations alike (and
\* so, by composition, permuting both alike) leaves thresholds unchanged; the
\* dimensions used for both reshapes are those of the input stack, whatever
\* the shape of the prediction files.
C15_PositionalPairing ==
    saved =>
       /\ dims = XStack.shape
       /\ mae_loss.shape = <<XStack.shape[2], XStack.shape[1]>>
       /\ Size(YStack) = Size(XStack)
       /\ \A i \in 1..(Len(input_files) - 1) :
             CellThresholds(Swap(input_files, i), Swap(pred_files, i)) = thresholds

\* the cell has run on prediction files of another shape than the input
\* files, for which exchanging two prediction files alone gives other
\* thresholds
C15_Witness ==
    /\ saved
    /\ YStack.shape # XStack.shape
    /\ \E i \in 1..(Len(pred_files) - 1) :
          CellThresholds(input_files, Swap(pred_files, i)) # thresholds

=============================================================================
